---- MODULE Spec2Model ----
(***************************************************************************)
(* The todo list of react-todo-list: the advanced version (App.js with the *)
(* Control and Content components), the basic version (App.todo.basic.js)  *)
(* and the "prevent adding empty items" variant of the basic Control.      *)
(*                                                                         *)
(* JavaScript values are tagged records: a string is [t |-> "string",      *)
(* s |-> <<characters>>] and undefined is [t |-> "undefined", s |-> <<>>]. *)
(***************************************************************************)
EXTENDS Integers, Sequences, FiniteSets, TLC

\* ------------------------------------------------------------------ bounds
\* Number of clicks on the Add button in one run.
MaxSubmits == 3
\* First and last reading of the wall clock (milliseconds) in one run.
ClockStart == 9
MaxClock == 10

\* ------------------------------------------------------- JavaScript values
Str(s) == [t |-> "string", s |-> s]
Undefined == [t |-> "undefined", s |-> <<>>]
EmptyString == Str(<<>>)

\* The texts a user types into the input.
Texts == { <<>>, <<" ">>, <<" ", "a">>, <<"b">> }

Digits == <<"0", "1", "2", "3", "4", "5", "6", "7", "8", "9">>

RECURSIVE NumberToString(_)
\* `${timestamp}`: the decimal digits of a non-negative integer.
NumberToString(n) ==
    IF n < 10 THEN <<Digits[n + 1]>>
    ELSE NumberToString(n \div 10) \o <<Digits[(n % 10) + 1]>>

\* Template literal `${timestamp}`.
TemplateId(timestamp) == Str(NumberToString(timestamp))

IsWhiteSpace(c) == c \in {" ", "\t", "\n"}

RECURSIVE TrimStart(_)
TrimStart(s) ==
    IF s # <<>> /\ IsWhiteSpace(Head(s)) THEN TrimStart(Tail(s)) ELSE s

RECURSIVE TrimEnd(_)
TrimEnd(s) ==
    IF s # <<>> /\ IsWhiteSpace(s[Len(s)])
    THEN TrimEnd(SubSeq(s, 1, Len(s) - 1))
    ELSE s

\* String.prototype.trim on the characters of a string.
Trim(s) == TrimEnd(TrimStart(s))

\* ------------------------------------------------------------------ events
\* An event object handed to a handler: e itself may be missing, or its
\* target may be missing; a target carries the element's id and value.
Event(hasE, hasTarget, id, val) ==
    [e |-> hasE, target |-> hasTarget, id |-> id, value |-> val]

NoEvent == Event(FALSE, FALSE, Undefined, Undefined)
NoTarget == Event(TRUE, FALSE, Undefined, Undefined)

\* Change events of the input element.
ChangeEvents ==
    { Event(TRUE, TRUE, Undefined, Str(s)) : s \in Texts } \cup {NoEvent, NoTarget}

\* Ids an element can carry: the string forms of the clock readings.
ElementIds == { TemplateId(n) : n \in ClockStart..MaxClock }

\* A target that carries no id.
NoTargetId == Event(TRUE, TRUE, Undefined, Undefined)

\* Click events on a list item.
ClickEvents ==
    { Event(TRUE, TRUE, i, Undefined) : i \in ElementIds }
        \cup {NoEvent, NoTarget, NoTargetId}

\* e?.target?.value
OptTargetValue(e) == IF e.e /\ e.target THEN e.value ELSE Undefined

\* e?.target?.id
OptTargetId(e) == IF e.e /\ e.target THEN e.id ELSE Undefined

VARIABLES
    now,        \* reading of the wall clock, (new Date).getTime()
    list,       \* App: useState([]) of the advanced version
    value,      \* Control: useState('') of the advanced version
    ctlList,    \* the list prop captured by Control's onAddItem at its render
    cntList,    \* the list prop captured by Content's onRemove at its render
    blist,      \* basic App: useState([])
    bvalue,     \* basic Control: useState('')
    vlist,      \* basic App with the validating Control: useState([])
    vvalue,     \* validating Control: useState('')
    ev,         \* the event handled last: its kind, the id and the text it
                \* carried and the length of the list it found
    eff,        \* what the last handler did besides setting state: the identity
                \* of the array now in the state (the array it was given being
                \* PrevRef), whether the array it was given still holds what it
                \* held, and whether it threw
    submitted,  \* the buffer values of the submits so far, in order
    stamps,     \* the clock readings of the submits so far, in order
    activated   \* TRUE once a list item has been clicked

vars == <<now, list, value, ctlList, cntList, blist, bvalue, vlist, vvalue,
          ev, eff, submitted, stamps, activated>>

advVars == <<list, value, ctlList, cntList>>
basicVars == <<blist, bvalue>>
validVars == <<vlist, vvalue>>

\* ------------------------------------------------------ advanced version
\* Variants of onAddItem: one that ignores an empty buffer, one that puts the
\* entry first, one that trims the value, one that keeps the buffer.
onAddItemDropsBlank(l, v, timestamp) ==
    IF v = EmptyString
    THEN [list |-> l, value |-> EmptyString]
    ELSE [list |-> Append(l, [value |-> v, id |-> TemplateId(timestamp)]),
          value |-> EmptyString]

onAddItemPrepends(l, v, timestamp) ==
    [list |-> <<[value |-> v, id |-> TemplateId(timestamp)]>> \o l,
     value |-> EmptyString]

onAddItemTrims(l, v, timestamp) ==
    [list |-> Append(l, [value |-> Str(Trim(v.s)), id |-> TemplateId(timestamp)]),
     value |-> EmptyString]

onAddItemKeepsValue(l, v, timestamp) ==
    [list |-> Append(l, [value |-> v, id |-> TemplateId(timestamp)]),
     value |-> v]

\* (onAddItemSeconds: the id taken from the seconds, Math.floor(timestamp / 1000).)
onAddItemSeconds(l, v, timestamp) ==
    [list |-> Append(l, [value |-> v, id |-> TemplateId(timestamp \div 1000)]),
     value |-> EmptyString]

\* Control.onAddItem: the list and the buffer it sets.
onAddItem(l, v, timestamp) ==
    [list |-> Append(l, [value |-> v, id |-> TemplateId(timestamp)]),
     value |-> EmptyString]

\* Removes only the first entry with the id.
onRemoveFirstMatch(l, id) ==
    IF \E i \in 1..Len(l) : l[i].id = id
    THEN LET k == CHOOSE i \in 1..Len(l) :
                      l[i].id = id /\ \A j \in 1..(i - 1) : l[j].id # id
         IN  SubSeq(l, 1, k - 1) \o SubSeq(l, k + 1, Len(l))
    ELSE l

\* list.splice(list.findIndex(...), 1): index -1 removes the last element.
onRemoveSplice(l, id) ==
    IF \E i \in 1..Len(l) : l[i].id = id
    THEN SelectSeq(l, LAMBDA item : item.id # id)
    ELSE SubSeq(l, 1, Len(l) - 1)

\* Filters, then hands the kept entries back in reverse order.
onRemoveReverses(l, id) ==
    LET kept == SelectSeq(l, LAMBDA item : item.id # id)
    IN  [i \in 1..Len(kept) |-> kept[Len(kept) + 1 - i]]

\* (onRemoveKeepsMatch: the test written item.id === id.)
onRemoveKeepsMatch(l, id) == SelectSeq(l, LAMBDA item : item.id = id)

\* (onRemoveNoIdClears: if (!id) return setList([]) ahead of the filter.)
onRemoveNoIdClears(l, id) ==
    IF id = Undefined THEN <<>> ELSE SelectSeq(l, LAMBDA item : item.id # id)

\* Content.onRemove: list.filter(item => item.id !== id).
onRemove(l, id) == SelectSeq(l, LAMBDA item : item.id # id)

\* ---- Content's render
\* A value inside a template literal: undefined reads "undefined".
TemplateText(v) ==
    IF v.t = "string" THEN v.s ELSE <<"u", "n", "d", "e", "f", "i", "n", "e", "d">>

\* A value as a JSX child: a string is shown, undefined shows nothing.
ChildText(v) == IF v.t = "string" THEN v.s ELSE <<>>

\* (ItemKeyIdOnly: key={`item_${item.id}`}, the index left out.)
ItemKeyIdOnly(idx, item) ==
    <<"i", "t", "e", "m", "_">> \o TemplateText(item.id)

\* key={`${idx}_item_${item.id}`}, idx counting from 0.
ItemKey(idx, item) ==
    NumberToString(idx) \o <<"_", "i", "t", "e", "m", "_">> \o TemplateText(item.id)

\* (ContentRenderSkipsEmpty: item.value && <TodoItem .../>, which leaves out
\* the entries with an empty value.)
ContentRenderSkipsEmpty(l) ==
    LET shown == SelectSeq(l, LAMBDA item : ChildText(item.value) # <<>>)
    IN  [i \in 1..Len(shown) |->
            [key |-> ItemKey(i - 1, shown[i]), id |-> shown[i].id,
             text |-> ChildText(shown[i].value)]]

\* list.map((item, idx) => <TodoItem key=... id={item.id}>{item.value}</TodoItem>)
ContentRender(l) ==
    [i \in 1..Len(l) |->
        [key |-> ItemKey(i - 1, l[i]), id |-> l[i].id, text |-> ChildText(l[i].value)]]

\* ---- object identity
\* The identity of the array a handler finds in its list prop.
PrevRef == 0

\* A newly created object: distinct from every live one.
FreshRef(live) == CHOOSE a \in 0..Cardinality(live) : a \notin live

\* The identity of the array onAddItem hands to setList: the array literal
\* [...list, {...}] is a new array.
onAddItemRef(ref) == FreshRef({ref})

\* (onRemoveRefShortCut: a removal that hands back the array it was given
\* when nothing matches.)
onRemoveRefShortCut(l, id, ref) ==
    IF \A i \in 1..Len(l) : l[i].id # id THEN ref ELSE FreshRef({ref})

\* The identity of the array onRemove hands to setList: filter returns a new
\* array, whether or not it dropped anything.
onRemoveRef(l, id, ref) == FreshRef({ref})

\* (onAddItemPushes: list.push(...) in place of the spread.)
onAddItemPushes(l, v, timestamp) ==
    Append(l, [value |-> v, id |-> TemplateId(timestamp)])

\* What the array given to onAddItem holds afterwards: the spread only reads it.
onAddItemLeaves(l, v, timestamp) == l

\* What the array given to onRemove holds afterwards: filter only reads it.
onRemoveLeaves(l, id) == l

\* ---- exceptions
\* e.target.id and e.target.value throw a TypeError without e or e.target.
TargetThrows(e) == ~(e.e /\ e.target)

\* (PlainTargetThrows: the optional chain written as a plain e.target.id.)
PlainTargetThrows(e) == ~e.e \/ ~e.target

\* e?.target?.id and e?.target?.value never throw.
OptTargetThrows(e) == FALSE

\* What a component's handlers see as the list prop after App re-rendered
\* with the state `state`; `captured` is what they saw before.
\* (RenderKeepsProp: a render that leaves the handlers with the old prop.)
RenderKeepsProp(state, captured) == captured

RenderProp(state, captured) == state

\* -------------------------------------------------- basic version
\* App.onAdd: [...list, value]
onAdd(l, v) == Append(l, v)

\* Control.addItem of the basic version: the list and the buffer it sets.
addItem(l, v) == [list |-> onAdd(l, v), value |-> EmptyString]

\* Control.addItem with the guard value === '' in place of the trim.
addItemValidatedNoTrim(l, v) ==
    IF v.s = <<>>
    THEN [list |-> l, value |-> v]
    ELSE [list |-> onAdd(l, v), value |-> EmptyString]

\* Control.addItem of the "prevent adding empty items" variant.
addItemValidated(l, v) ==
    IF Trim(v.s) = <<>>
    THEN [list |-> l, value |-> v]
    ELSE [list |-> onAdd(l, v), value |-> EmptyString]

\* ------------------------------------------------------------ state machine
Init ==
    /\ now = ClockStart
    /\ list = <<>>
    /\ value = EmptyString
    /\ ctlList = <<>>
    /\ cntList = <<>>
    /\ blist = <<>>
    /\ bvalue = EmptyString
    /\ vlist = <<>>
    /\ vvalue = EmptyString
    /\ ev = [kind |-> "init", id |-> Undefined, text |-> Undefined, len |-> 0]
    /\ eff = [ref |-> PrevRef, intact |-> TRUE, threw |-> FALSE]
    /\ submitted = <<>>
    /\ stamps = <<>>
    /\ activated = FALSE

\* (AdvChangeTrims: setValue(e?.target?.value?.trim()).)
AdvChangeTrims(e) ==
    /\ value' = IF e.e /\ e.target THEN Str(Trim(e.value.s)) ELSE Undefined
    /\ UNCHANGED <<list, ctlList, cntList>>

\* Advanced Control, the input's onChange: setValue(e?.target?.value).
AdvChange(e) ==
    /\ value' = OptTargetValue(e)
    /\ UNCHANGED <<list, ctlList, cntList>>

\* Advanced Control, the Add button's onClick; App then re-renders Control
\* and Content with the new state before the next event is handled.
AdvSubmit ==
    LET adv == onAddItem(ctlList, value, now)
    IN  /\ list' = adv.list
        /\ value' = adv.value
        /\ ctlList' = RenderProp(adv.list, ctlList)
        /\ cntList' = RenderProp(adv.list, cntList)

\* (AdvRemoveClearsValue: a removal that also resets Control's buffer, as a
\* shared reset after every list update would.)
AdvRemoveClearsValue(e) ==
    LET newList == onRemove(cntList, OptTargetId(e))
    IN  /\ list' = newList
        /\ ctlList' = RenderProp(newList, ctlList)
        /\ cntList' = RenderProp(newList, cntList)
        /\ value' = EmptyString

\* Advanced Content, a list item's onClick, followed by the re-render.
AdvRemove(e) ==
    LET newList == onRemove(cntList, OptTargetId(e))
    IN  /\ list' = newList
        /\ ctlList' = RenderProp(newList, ctlList)
        /\ cntList' = RenderProp(newList, cntList)
        /\ UNCHANGED value

\* Basic Control, onChange: setValue(e.target.value), which throws without a
\* target and leaves the state as it was.
BasicChange(e) ==
    /\ bvalue' = IF e.e /\ e.target THEN e.value ELSE bvalue
    /\ UNCHANGED blist

\* Basic Control, the Add button's onClick.
BasicSubmit ==
    LET bas == addItem(blist, bvalue)
    IN  /\ blist' = bas.list
        /\ bvalue' = bas.value

\* The validating Control's onChange, the same as the basic one.
ValidChange(e) ==
    /\ vvalue' = IF e.e /\ e.target THEN e.value ELSE vvalue
    /\ UNCHANGED vlist

\* The validating Control, the Add button's onClick.
ValidSubmit ==
    LET val == addItemValidated(vlist, vvalue)
    IN  /\ vlist' = val.list
        /\ vvalue' = val.value

\* The list items on the page: what Content rendered from its list prop.
View == ContentRender(cntList)

\* ---- the advanced version under user events and the passing of time
\* The wall clock advances by a millisecond.
Tick ==
    /\ now < MaxClock
    /\ now' = now + 1
    /\ ev' = [kind |-> "tick", id |-> Undefined, text |-> Undefined, len |-> Len(list)]
    /\ eff' = [ref |-> PrevRef, intact |-> TRUE, threw |-> FALSE]
    /\ UNCHANGED <<advVars, basicVars, validVars, submitted, stamps, activated>>

OnChange(e) ==
    /\ AdvChange(e)
    /\ ev' = [kind |-> "change", id |-> Undefined, text |-> e.value, len |-> Len(list)]
    /\ eff' = [ref |-> PrevRef, intact |-> TRUE, threw |-> OptTargetThrows(e)]
    /\ UNCHANGED <<now, basicVars, validVars, submitted, stamps, activated>>

\* A click on the Add button, but for the record of the clock reading.
SubmitStep ==
    /\ Len(submitted) < MaxSubmits
    /\ AdvSubmit
    /\ submitted' = Append(submitted, value)
    /\ ev' = [kind |-> "submit", id |-> Undefined, text |-> Undefined, len |-> Len(list)]
    /\ eff' = [ref |-> onAddItemRef(PrevRef),
               intact |-> onAddItemLeaves(ctlList, value, now) = ctlList,
               threw |-> FALSE]
    /\ UNCHANGED <<now, basicVars, validVars, activated>>

OnSubmit ==
    /\ SubmitStep
    /\ UNCHANGED stamps

OnRemove(e) ==
    /\ AdvRemove(e)
    /\ activated' = TRUE
    /\ ev' = [kind |-> "remove", id |-> OptTargetId(e), text |-> Undefined,
              len |-> Len(list)]
    /\ eff' = [ref |-> onRemoveRef(cntList, OptTargetId(e), PrevRef),
               intact |-> onRemoveLeaves(cntList, OptTargetId(e)) = cntList,
               threw |-> OptTargetThrows(e)]
    /\ UNCHANGED <<now, basicVars, validVars, submitted, stamps>>

Next ==
    \/ Tick
    \/ \E e \in ChangeEvents : OnChange(e)
    \/ OnSubmit
    \/ \E e \in ClickEvents : OnRemove(e)

Spec == Init /\ [][Next]_vars

\* ---- the advanced version, the clock reading of every submit kept
StampedSubmit ==
    /\ SubmitStep
    /\ stamps' = Append(stamps, now)

NextStamped ==
    \/ Tick
    \/ \E e \in ChangeEvents : OnChange(e)
    \/ StampedSubmit
    \/ \E e \in ClickEvents : OnRemove(e)

SpecStamped == Init /\ [][NextStamped]_vars

\* ---- the advanced and the basic version under the same events
PairChange(e) ==
    /\ AdvChange(e)
    /\ BasicChange(e)
    /\ ev' = [kind |-> "change", id |-> Undefined, text |-> e.value, len |-> Len(list)]
    /\ eff' = [ref |-> PrevRef, intact |-> TRUE, threw |-> TargetThrows(e)]
    /\ UNCHANGED <<now, validVars, submitted, stamps, activated>>

PairSubmit ==
    /\ Len(submitted) < MaxSubmits
    /\ AdvSubmit
    /\ BasicSubmit
    /\ submitted' = Append(submitted, value)
    /\ ev' = [kind |-> "submit", id |-> Undefined, text |-> Undefined, len |-> Len(list)]
    /\ eff' = [ref |-> onAddItemRef(PrevRef), intact |-> TRUE, threw |-> FALSE]
    /\ UNCHANGED <<now, validVars, stamps, activated>>

NextPair ==
    \/ Tick
    \/ \E e \in ChangeEvents : PairChange(e)
    \/ PairSubmit

SpecPair == Init /\ [][NextPair]_vars

\* ---- the basic version and its validating variant under the same events
ExerciseChange(e) ==
    /\ BasicChange(e)
    /\ ValidChange(e)
    /\ ev' = [kind |-> "change", id |-> Undefined, text |-> e.value, len |-> Len(vlist)]
    /\ eff' = [ref |-> PrevRef, intact |-> TRUE, threw |-> TargetThrows(e)]
    /\ UNCHANGED <<now, advVars, submitted, stamps, activated>>

ExerciseSubmit ==
    /\ Len(blist) < MaxSubmits
    /\ BasicSubmit
    /\ ValidSubmit
    /\ ev' = [kind |-> "submit", id |-> Undefined, text |-> Undefined, len |-> Len(vlist)]
    /\ eff' = [ref |-> IF vlist' = vlist THEN PrevRef ELSE FreshRef({PrevRef}),
               intact |-> TRUE, threw |-> FALSE]
    /\ UNCHANGED <<now, advVars, submitted, stamps, activated>>

NextValidated ==
    \/ \E e \in ChangeEvents : ExerciseChange(e)
    \/ ExerciseSubmit

SpecValidated == Init /\ [][NextValidated]_vars

\* ------------------------------------------------------------------ claims
RECURSIVE Without(_, _)
\* The entries of l whose id differs from id, in the order of l.
Without(l, id) ==
    IF l = <<>> THEN <<>>
    ELSE IF Head(l).id = id THEN Without(Tail(l), id)
         ELSE <<Head(l)>> \o Without(Tail(l), id)

Matches(l, id) == { i \in 1..Len(l) : l[i].id = id }

IsBlank(s) == \A i \in 1..Len(s) : s[i] \in {" ", "\t", "\n"}

\* C1: starting from the empty Store, after n submits with buffer values
\* v1..vn and no activation in between, the Store holds exactly n entries, in
\* submit order, and the i-th entry's value is vi.
C1_SubmitsBuildTheList ==
    ~activated =>
        /\ Len(list) = Len(submitted)
        /\ \A i \in 1..Len(list) : list[i].value = submitted[i]

C1_Witness ==
    /\ ~activated
    /\ Len(list) = 3
    /\ list[1].value # list[2].value
    /\ list[2].value # list[3].value

\* C2: a text change to v followed by a submit adds exactly one entry, at the
\* end of the Store, whose value is v verbatim; the entries held before keep
\* their ids, values and order.
C2_ChangeThenSubmitAppends ==
    [][(ev.kind = "change" /\ ev'.kind = "submit") =>
          /\ Len(list') = Len(list) + 1
          /\ SubSeq(list', 1, Len(list)) = list
          /\ list'[Len(list')].value = value]_vars

C2_Witness ==
    /\ ev.kind = "submit"
    /\ ev.len >= 1
    /\ Len(list) = ev.len + 1
    /\ list[Len(list)].value = Str(<<" ", "a">>)

\* C3: an activation with id yields a Store that holds exactly the entries of
\* the previous Store whose id differs from id, in the same relative order;
\* no entry with that id remains.
C3_RemoveKeepsTheOthers ==
    [][ev'.kind = "remove" =>
          /\ list' = Without(list, ev'.id)
          /\ \A i \in 1..Len(list') : list'[i].id # ev'.id]_vars

C3_Witness ==
    /\ ev.kind = "remove"
    /\ ev.len = 3
    /\ Len(list) = 1

\* C4: in every reachable state each entry's id is unique among the entries
\* held in the Store.
C4_UniqueIds ==
    \A i, j \in 1..Len(list) : i # j => list[i].id # list[j].id

\* C5: an activation whose id matches exactly one entry yields a Store one
\* entry shorter, with all other entries present in unchanged relative order.
C5_RemoveOneMatch ==
    [][(ev'.kind = "remove" /\ Cardinality(Matches(list, ev'.id)) = 1) =>
          /\ Len(list') = Len(list) - 1
          /\ \E k \in 1..Len(list) :
                /\ list[k].id = ev'.id
                /\ list' = SubSeq(list, 1, k - 1) \o SubSeq(list, k + 1, Len(list))]_vars

C5_Witness ==
    /\ ev.kind = "remove"
    /\ ev.len = 3
    /\ Len(list) = 2
    /\ list[1].value # list[2].value

\* C6: an activation whose id matches no entry, on the empty Store too,
\* leaves the Store with the same entries in the same order.
C6_RemoveNoMatch ==
    [][(ev'.kind = "remove" /\ Matches(list, ev'.id) = {}) => list' = list]_vars

C6_Witness ==
    /\ ev.kind = "remove"
    /\ ev.id \in ElementIds
    /\ ev.len = 2
    /\ Len(list) = 2

\* C7: immediately after every submit the Pending Buffer is the empty string,
\* whatever text was submitted.
C7_SubmitClearsBuffer ==
    ev.kind = "submit" => value = EmptyString

C7_Witness ==
    /\ ev.kind = "submit"
    /\ submitted[Len(submitted)] = Str(<<" ", "a">>)
    /\ value = EmptyString

\* C8: for submits and activations in direct succession each handler builds
\* its snapshot from the snapshot the preceding event produced: the handlers'
\* captured list is the current list, every submit lengthens the Store by one
\* and keeps what it held, every activation only drops the entries it names.
C8_HandlersSeeTheLatestList ==
    [][/\ ctlList' = list'
       /\ cntList' = list'
       /\ ev'.kind = "submit" =>
             (Len(list') = Len(list) + 1 /\ SubSeq(list', 1, Len(list)) = list)
       /\ ev'.kind = "remove" => list' = Without(list, ev'.id)]_vars

C8_Witness ==
    /\ ev.kind = "submit"
    /\ activated
    /\ Len(submitted) = 3
    /\ Len(list) = 2
    /\ ev.len = 1

\* C9: in the shipped build a submit with an empty Pending Buffer still
\* appends one entry, whose value is the empty string.
C9_EmptySubmitAppends ==
    [][(ev'.kind = "submit" /\ value = EmptyString) =>
          /\ Len(list') = Len(list) + 1
          /\ list'[Len(list')].value = EmptyString]_vars

C9_Witness ==
    /\ ev.kind = "submit"
    /\ Len(list) = ev.len + 1
    /\ list[Len(list)].value = EmptyString

\* C10: in the validating variant a submit whose buffer is empty or
\* whitespace-only is rejected and leaves the Store unchanged.
C10_BlankSubmitRejected ==
    [][(ev'.kind = "submit" /\ IsBlank(vvalue.s)) => vlist' = vlist]_vars

C10_Witness ==
    /\ ev.kind = "submit"
    /\ vvalue = Str(<<" ">>)
    /\ Len(vlist) >= 1
    /\ Len(vlist) < Len(blist)

\* C11: the Pending Buffer and the Store are independent: a text change
\* leaves the Store unchanged and an activation leaves the Pending Buffer
\* unchanged; only a submit touches both.
C11_BufferAndStoreIndependent ==
    [][/\ ev'.kind = "change" => list' = list
       /\ ev'.kind = "remove" => value' = value
       /\ ev'.kind = "submit" => (list' # list /\ value' = EmptyString)]_vars

C11_Witness ==
    /\ ev.kind = "remove"
    /\ value = Str(<<" ", "a">>)
    /\ ev.len = 2
    /\ Len(list) = 1

C14_ViewShowsTheStore ==
    /\ Len(View) = Len(list)
    /\ \A i \in 1..Len(list) :
          /\ View[i].id = list[i].id
          /\ list[i].value.t = "string" => View[i].text = list[i].value.s

C14_Witness ==
    /\ Len(View) = 3
    /\ View[1].text = <<" ", "a">>
    /\ View[2].text = <<>>
    /\ View[3].text = <<"b">>
    /\ View[1].id # View[3].id

DigitValue(c) == CHOOSE d \in 0..9 : Digits[d + 1] = c

RECURSIVE ParseDecimal(_)
\* The number a sequence of decimal digits stands for.
ParseDecimal(s) ==
    IF s = <<>> THEN 0
    ELSE 10 * ParseDecimal(SubSeq(s, 1, Len(s) - 1)) + DigitValue(s[Len(s)])

IsDecimal(s) ==
    /\ Len(s) >= 1
    /\ \A i \in 1..Len(s) : \E d \in 0..9 : Digits[d + 1] = s[i]
    /\ Len(s) > 1 => s[1] # "0"

\* C15: the id of the entry a submit creates is the string form of the clock
\* reading (milliseconds) taken during that submit.
C15_IdIsTheClockReading ==
    [][ev'.kind = "submit" =>
          LET id == list'[Len(list')].id
          IN  /\ id.t = "string"
              /\ IsDecimal(id.s)
              /\ ParseDecimal(id.s) = now]_vars

C15_Witness ==
    /\ ev.kind = "submit"
    /\ now = 10
    /\ Len(list) >= 2
    /\ list[Len(list)].id = Str(<<"1", "0">>)

\* C16: a text change replaces the Pending Buffer with the new text verbatim,
\* with no validation and no trimming.
C16_ChangeSetsBufferVerbatim ==
    ev.kind = "change" => value = ev.text

C16_Witness ==
    /\ ev.kind = "change"
    /\ ev.text = Str(<<" ", "a">>)
    /\ value = Str(<<" ", "a">>)
    /\ Len(list) >= 1

C18_AppendThenRemoveIsEmpty ==
    [][(/\ ev.kind = "submit"
        /\ ev.len = 0
        /\ Len(list) = 1
        /\ ev'.kind = "remove"
        /\ ev'.id = list[1].id) => list' = <<>>]_vars

C18_Witness ==
    /\ ev.kind = "remove"
    /\ ev.id \in ElementIds
    /\ ev.len = 1
    /\ Len(submitted) = 1
    /\ submitted[1] = Str(<<"b">>)
    /\ list = <<>>

\* C19: when two entries share an id, activating either of them removes
\* every entry that shares that id.
C19_SharedIdRemovedTogether ==
    [][(ev'.kind = "remove" /\ Cardinality(Matches(list, ev'.id)) >= 2) =>
          /\ Len(list') = Len(list) - Cardinality(Matches(list, ev'.id))
          /\ Matches(list', ev'.id) = {}]_vars

C19_Witness ==
    /\ ev.kind = "remove"
    /\ ev.id \in ElementIds
    /\ ev.len = 2
    /\ list = <<>>

\* C20: in every reachable state the Pending Buffer is a string and every
\* entry of the Store has a string id and a string value, for every
\* text-change event the change handler accepts.
C20_AllStrings ==
    /\ value.t = "string"
    /\ \A i \in 1..Len(list) :
          list[i].id.t = "string" /\ list[i].value.t = "string"

\* C21: the render keys of the list items are pairwise distinct in every
\* reachable state, also when two entries share an id.
C21_KeysDistinct ==
    \A i, j \in 1..Len(View) : i # j => View[i].key # View[j].key

C21_Witness ==
    /\ Len(View) = 3
    /\ View[1].id = View[2].id
    /\ View[2].id = View[3].id
    /\ View[1].key # View[2].key

\* C22: an activation whose target, or target id, is absent raises no error
\* and removes nothing: the Store holds the same entries in the same order.
C22_NoTargetRemovesNothing ==
    [][(ev'.kind = "remove" /\ ev'.id = Undefined) =>
          (list' = list /\ ~eff'.threw)]_vars

C22_Witness ==
    /\ ev.kind = "remove"
    /\ ev.id = Undefined
    /\ ev.len = 3
    /\ Len(list) = 3
    /\ ~eff.threw

\* C23: a submit followed by the activation of the entry that submit created
\* restores the Store to exactly the entries, in the order, it held before
\* the submit (which are all but the last entry of the Store after it).
C23_SubmitThenRemoveRestores ==
    [][(/\ ev.kind = "submit"
        /\ ev'.kind = "remove"
        /\ ev'.id = list[Len(list)].id) =>
          list' = SubSeq(list, 1, Len(list) - 1)]_vars

RECURSIVE IsSubseq(_, _)
\* a is b with some entries left out.
IsSubseq(a, b) ==
    IF a = <<>> THEN TRUE
    ELSE IF b = <<>> THEN FALSE
    ELSE IF Head(a) = Head(b) THEN IsSubseq(Tail(a), Tail(b))
    ELSE IsSubseq(a, Tail(b))

\* Entry x is what the k-th submit created: its value is the buffer of that
\* submit and its id reads as the clock of that submit.
CreatedBy(x, vals, ts, k) ==
    /\ x.value = vals[k]
    /\ x.id.t = "string"
    /\ IsDecimal(x.id.s)
    /\ ParseDecimal(x.id.s) = ts[k]

RECURSIVE InCreationOrder(_, _, _, _)
\* The entries of l are created by submits k, k+1, ... in increasing order.
InCreationOrder(l, vals, ts, k) ==
    IF l = <<>> THEN TRUE
    ELSE IF k > Len(vals) THEN FALSE
    ELSE IF CreatedBy(Head(l), vals, ts, k)
         THEN InCreationOrder(Tail(l), vals, ts, k + 1)
         ELSE InCreationOrder(l, vals, ts, k + 1)

\* C24: in every reachable state the Store is a subsequence of the creation
\* history: every held entry has the id and value it was created with, the
\* entries appear in creation order, and an entry once removed never
\* reappears (all but a submit's new last entry were held in the state before).
\* The Store is empty at the start, so it is enough to look at the history
\* after every step that changes the Store or the history.
C24_StoreIsSubsequenceOfHistory ==
    [][/\ <<list, submitted, stamps>>' # <<list, submitted, stamps>> =>
             InCreationOrder(list', submitted', stamps', 1)
       /\ ev'.kind # "submit" => IsSubseq(list', list)
       /\ ev'.kind = "submit" => IsSubseq(SubSeq(list', 1, Len(list') - 1), list)]_vars

C24_Witness ==
    /\ Len(submitted) = 3
    /\ stamps = <<9, 9, 10>>
    /\ Len(list) = 1
    /\ list[1].value = submitted[3]
    /\ submitted[3] # submitted[2]
    /\ submitted[3] # submitted[1]

\* C25: removal is idempotent: a second removal with the same id leaves the
\* Store as the first one left it.
C25_RemoveIdempotent ==
    [][(ev.kind = "remove" /\ ev'.kind = "remove" /\ ev'.id = ev.id) =>
          list' = list]_vars

C25_Witness ==
    /\ ev.kind = "remove"
    /\ ev.id \in ElementIds
    /\ Matches(list, ev.id) = {}
    /\ ev.len = 1
    /\ Len(list) = 1
    /\ Len(submitted) = 3

\* The ids an activation can carry.
RemovalIds == ElementIds \cup {Undefined}

\* C26: removals commute: for every Store and ids a and b, removing a and
\* then b yields the same entries in the same order as removing b and then a.
C26_RemovalsCommute ==
    \A a, b \in RemovalIds :
        onRemove(onRemove(list, a), b) = onRemove(onRemove(list, b), a)

C26_Witness ==
    /\ ev.kind = "remove"
    /\ ev.id = Undefined
    /\ Len(list) = 3
    /\ list[1].id # list[3].id
    /\ onRemove(onRemove(list, list[3].id), list[1].id) = <<>>

RECURSIVE DrainsWithin(_, _)
\* Activating the first rendered entry again and again empties l within n
\* activations.
DrainsWithin(l, n) ==
    IF l = <<>> THEN TRUE
    ELSE IF n = 0 THEN FALSE
    ELSE DrainsWithin(onRemove(l, ContentRender(l)[1].id), n - 1)

\* C27: every activation of a rendered entry strictly shortens the Store, so
\* with no further submits, activating the first rendered entry repeatedly
\* reaches the empty Store within as many activations as the Store has entries.
C27_ActivationShortensTheStore ==
    [][/\ (ev'.kind = "remove" /\ \E k \in 1..Len(View) : View[k].id = ev'.id) =>
             Len(list') < Len(list)
       /\ list' # list => DrainsWithin(list', Len(list'))]_vars

C27_Witness ==
    /\ ev.kind = "remove"
    /\ ev.id \in ElementIds
    /\ ev.len = 1
    /\ list = <<>>
    /\ Len(submitted) = 3
    /\ submitted[1] # submitted[2]

\* C28: for text changes and submits with no activation the basic and the
\* advanced version stay in step: the basic list is the sequence of the value
\* fields of the advanced Store, and the two input buffers are equal.
C28_BasicAndAdvancedInStep ==
    /\ blist = [i \in 1..Len(list) |-> list[i].value]
    /\ bvalue = value

====
